---- MODULE Spec2Model ----
(***************************************************************************)
(* Model of src/app.py: the Lambda handler that fetches a script, runs it  *)
(* inside the NewEnv context manager and returns to_json(main(inputs)).    *)
(*                                                                         *)
(* Three specifications:                                                   *)
(*   SpecJson  the pure function to_json applied to bounded Python values  *)
(*   Spec      the handler, statement by statement, over a reused process  *)
(*   SpecConc  NewEnv as used by two threads of one process at once        *)
(***************************************************************************)
EXTENDS Integers, Sequences, FiniteSets, TLC

VARIABLES
    jin,        \* to_json: the argument unsafe_json
    jseed,      \* to_json: the set iteration order of the process that ran the call
    jres,       \* to_json: what the call produced (value or raised error)
    jpc,        \* to_json: "start" before the call, "done" after it
    environ,    \* os.environ, the live environment mapping
    baseEnv,    \* the environment the process was started with
    tmp,        \* the entries of /tmp, by name
    orig_environ, \* NewEnv.orig_environ, the snapshot of the current NewEnv
    pc,         \* the handler's position
    event,      \* the request of the current invocation
    inv,        \* number of invocations this process has completed
    g,          \* the namespace the script is executed in
    outputs,    \* what main returned
    retval,     \* the value of the return statement inside the with block
    exc,        \* the exception propagating, NoExc when none
    response,   \* what the handler returned to the host
    status,     \* response.status of the fetch, 0 before it
    todo,       \* exit: entries of the scandir listing not yet visited
    entered,    \* __enter__ has completed in this invocation
    exits,      \* number of times __exit__ was called in this invocation
    loaded,     \* exec(code, g) was started in this invocation
    invoked,    \* g["main"](inputs) was called in this invocation
    populated,  \* exec(code, g) completed without raising in this invocation
    mainExc,    \* the exception main raised in this invocation, NoExc when none
    ops,        \* number of environment and /tmp operations of the script
    muts,       \* kinds of change the script made to os.environ
    code,       \* the decoded body of the fetch response
    exc_val,    \* the exc_val argument of __exit__: the exception leaving the block
    delFailed,  \* __exit__: a remove() or rmtree() of this invocation failed
    cpc,        \* concurrent callers: the position of each thread
    csnap       \* concurrent callers: orig_environ of each thread's NewEnv

jvars == <<jin, jseed, jres, jpc>>
hvars == <<environ, baseEnv, tmp, orig_environ, pc, event, inv, g, outputs, retval,
           exc, response, status, todo, entered, exits, loaded, invoked, populated,
           mainExc, ops, muts, code, exc_val, delFailed>>
cvars == <<cpc, csnap>>
vars == <<jvars, hvars, cvars>>

(***************************************************************************)
(* Bounds                                                                  *)
(***************************************************************************)
\* largest number of nodes (atoms and containers) of a generated Python value
MaxNodes == 3
\* invocations one process serves
MaxInvocations == 2
\* environment and /tmp operations one script performs
MaxOps == 2

(***************************************************************************)
(* Python values.  Every value is a record tagged by its type t.           *)
(***************************************************************************)
PyNone == [t |-> "None"]
PyBool(b) == [t |-> "bool", v |-> b]
PyInt(n) == [t |-> "int", v |-> n]
PyStr(s) == [t |-> "str", v |-> s]
PyList(s) == [t |-> "list", v |-> s]
PyTuple(s) == [t |-> "tuple", v |-> s]
PySet(S) == [t |-> "set", v |-> S]
PyDict(items) == [t |-> "dict", v |-> items]
\* a one-dimensional numpy.ndarray, and the numpy integers it iterates as
PyNdarray(s) == [t |-> "ndarray", v |-> s]
NpInt(n) == [t |-> "npint", v |-> n]
\* an instance of a user class; v says whether its __str__ returns or raises
PyObj(kind) == [t |-> "obj", v |-> kind]
\* a reference, held inside a list or dict, to a container that holds it
PySelf == [t |-> "self"]

Item(k, x) == [k |-> k, val |-> x]

\* the text str() gives for an object whose __str__ returns
ObjRepr == "<obj>"

Atoms ==
    {PyNone, PyBool(TRUE), PyInt(1), PyStr("a"), PyStr("1"),
     PyObj("good"), PyObj("bad")}

\* hashable values that occur as members of generated sets
SetElems == {PyInt(1), PyInt(2), PyStr("a"), PyStr("b")}

\* values that occur as keys of generated dicts
DictKeys == {PyStr("1"), PyInt(1), PyNone, PyTuple(<<PyInt(1)>>)}

\* numpy integers that occur as elements of generated arrays
NpElems == {NpInt(1), NpInt(2)}

NoSelf(s) == \A i \in 1..Len(s) : s[i] # PySelf

\* the values of one node
Smallest == Atoms \cup {PyList(<<>>), PyTuple(<<>>), PySet({}), PyDict(<<>>)}

\* the ways to split m nodes over the elements of a container
RECURSIVE Compositions(_)
Compositions(m) ==
    IF m = 0 THEN {<<>>}
    ELSE UNION {{<<i>> \o c : c \in Compositions(m - i)} : i \in 1..m}

\* In the operators below, sized[i] is the set of values of i nodes.
\* the values that may stand inside a list or as a dict value, by node count
ElemsOfSize(i, sized) == IF i = 1 THEN sized[1] \cup {PySelf} ELSE sized[i]

\* the sequences whose i-th element has c[i] nodes
RECURSIVE SeqsOf(_, _)
SeqsOf(c, sized) ==
    IF c = <<>> THEN {<<>>}
    ELSE LET rest == SeqsOf(Tail(c), sized) IN
         {<<x>> \o r : x \in ElemsOfSize(Head(c), sized), r \in rest}

\* the sequences of len distinct dict keys
KeySeqs(len) ==
    {ks \in [1..len -> DictKeys] : \A i, j \in 1..len : i # j => ks[i] # ks[j]}

ListsOf(c, sized) == {PyList(s) : s \in SeqsOf(c, sized)}
TuplesOf(c, sized) == {PyTuple(s) : s \in {q \in SeqsOf(c, sized) : NoSelf(q)}}
DictsOf(c, ks, sized) ==
    {PyDict([i \in 1..Len(c) |-> Item(ks[i], s[i])]) : s \in SeqsOf(c, sized)}
SetsOf(m) == {PySet(S) : S \in {T \in SUBSET SetElems : Cardinality(T) = m}}
NdarraysOf(m) == {PyNdarray(s) : s \in [1..m -> NpElems]}

\* the containers of n nodes, n > 1
Containers(n, sized) ==
    SetsOf(n - 1) \cup NdarraysOf(n - 1) \cup
    UNION {ListsOf(c, sized) \cup TuplesOf(c, sized)
           \cup UNION {DictsOf(c, ks, sized) : ks \in KeySeqs(Len(c))}
           : c \in Compositions(n - 1)}

\* <<values of 1 node, values of 2 nodes, ..., values of n nodes>>
RECURSIVE ValsBySize(_)
ValsBySize(n) ==
    IF n = 0 THEN <<>>
    ELSE IF n = 1 THEN <<Smallest>>
    ELSE LET sized == ValsBySize(n - 1) IN Append(sized, Containers(n, sized))

\* the orders in which one process may iterate a set: small ints come in
\* ascending order, strings wherever the process's string hash puts them
Seeds ==
    {<<PyInt(1), PyInt(2), PyStr("a"), PyStr("b")>>,
     <<PyInt(1), PyInt(2), PyStr("b"), PyStr("a")>>,
     <<PyStr("b"), PyInt(1), PyStr("a"), PyInt(2)>>}

(***************************************************************************)
(* to_json (src/app.py:106-140): loads(dumps(unsafe_json, default=...))    *)
(***************************************************************************)
\* a call either returns a value or raises an exception of a named type
Ret(x) == [ok |-> TRUE, val |-> x]
Raise(e) == [ok |-> FALSE, err |-> e]

\* JSON documents, the text dumps writes, as a tree of its productions
JNull == [j |-> "null"]
JBool(b) == [j |-> IF b THEN "true" ELSE "false"]
JNum(n) == [j |-> "number", v |-> n]
JString(s) == [j |-> "string", v |-> s]
JArray(s) == [j |-> "array", v |-> s]
JObject(members) == [j |-> "object", v |-> members]

\* list(obj) for a set: its members in the iteration order of this process
ListOfSet(S, seed) == SelectSeq(seed, LAMBDA x : x \in S)

\* str(obj) of the fallback; an object whose __str__ raises makes it raise,
\* a numpy integer gives its decimal digits
StrOf(obj) ==
    IF obj.t = "obj" /\ obj.v = "bad" THEN Raise("Exception")
    ELSE IF obj.t = "npint" THEN Ret(PyStr(ToString(obj.v)))
    ELSE Ret(PyStr(ObjRepr))

\* a fallback without the isinstance branch: every object becomes its str()
set_default_str_only(obj, seed) ==
    IF StrOf(obj).ok THEN StrOf(obj) ELSE Raise("TypeError")

\* set_default as written: a set or an ndarray becomes list(obj), anything
\* else its str(), and an exception of str() is re-raised as TypeError
set_default(obj, seed) ==
    IF obj.t = "set" THEN Ret(PyList(ListOfSet(obj.v, seed)))
    ELSE IF obj.t = "ndarray" THEN Ret(PyList(obj.v))
    ELSE IF StrOf(obj).ok THEN StrOf(obj) ELSE Raise("TypeError")

\* the member name the encoder writes for a dict key
KeyText(k) ==
    CASE k.t = "str" -> Ret(k.v)
      [] k.t = "int" -> Ret(ToString(k.v))
      [] k.t = "bool" -> Ret(IF k.v THEN "true" ELSE "false")
      [] k.t = "None" -> Ret("null")
      [] OTHER -> Raise("TypeError")

RECURSIVE dumps(_, _), EncodeSeq(_, _), EncodeItems(_, _)
\* the elements of a list or tuple, in order; the first error ends the call
EncodeSeq(s, seed) ==
    IF s = <<>> THEN Ret(<<>>)
    ELSE LET h == dumps(Head(s), seed) IN
         IF ~h.ok THEN h
         ELSE LET r == EncodeSeq(Tail(s), seed) IN
              IF ~r.ok THEN r ELSE Ret(<<h.val>> \o r.val)

\* the items of a dict, in order: the key first, then the value
EncodeItems(d, seed) ==
    IF d = <<>> THEN Ret(<<>>)
    ELSE LET k == KeyText(Head(d).k) IN
         IF ~k.ok THEN k
         ELSE LET x == dumps(Head(d).val, seed) IN
              IF ~x.ok THEN x
              ELSE LET r == EncodeItems(Tail(d), seed) IN
                   IF ~r.ok THEN r ELSE Ret(<<Item(k.val, x.val)>> \o r.val)

\* json.dumps(obj, default=set_default)
dumps(obj, seed) ==
    CASE obj.t = "None" -> Ret(JNull)
      [] obj.t = "bool" -> Ret(JBool(obj.v))
      [] obj.t = "int" -> Ret(JNum(obj.v))
      [] obj.t = "str" -> Ret(JString(obj.v))
      [] obj.t \in {"list", "tuple"} ->
            LET r == EncodeSeq(obj.v, seed) IN IF r.ok THEN Ret(JArray(r.val)) ELSE r
      [] obj.t = "dict" ->
            LET r == EncodeItems(obj.v, seed) IN IF r.ok THEN Ret(JObject(r.val)) ELSE r
      [] obj.t = "self" -> Raise("ValueError")
      [] OTHER ->
            LET r == set_default(obj, seed) IN IF r.ok THEN dumps(r.val, seed) ELSE r

\* d[k] = x on a dict kept as its items in insertion order
DictPut(d, k, x) ==
    IF \E i \in 1..Len(d) : d[i].k = k
    THEN [i \in 1..Len(d) |-> IF d[i].k = k THEN Item(k, x) ELSE d[i]]
    ELSE Append(d, Item(k, x))

RECURSIVE loads(_), DecodeMembers(_, _)
\* json.loads: the members of an object, a repeated name keeping its last value
DecodeMembers(m, d) ==
    IF m = <<>> THEN d
    ELSE DecodeMembers(Tail(m), DictPut(d, PyStr(Head(m).k), loads(Head(m).val)))

loads(doc) ==
    CASE doc.j = "null" -> PyNone
      [] doc.j = "true" -> PyBool(TRUE)
      [] doc.j = "false" -> PyBool(FALSE)
      [] doc.j = "number" -> PyInt(doc.v)
      [] doc.j = "string" -> PyStr(doc.v)
      [] doc.j = "array" -> PyList([i \in 1..Len(doc.v) |-> loads(doc.v[i])])
      [] OTHER -> PyDict(DecodeMembers(doc.v, <<>>))

\* a slip that returns the document text instead of parsing it back
to_json_text_only(unsafe_json, seed) ==
    LET text == dumps(unsafe_json, seed) IN
    IF text.ok THEN Ret(PyStr(ToString(text.val))) ELSE text

to_json(unsafe_json, seed) ==
    LET text == dumps(unsafe_json, seed) IN
    IF text.ok THEN Ret(loads(text.val)) ELSE text

(***************************************************************************)
(* The process environment and /tmp                                        *)
(***************************************************************************)
\* environment variable names, as their characters
EnvKeys ==
    {<<"A", "W", "S", "_", "I", "D">>,
     <<"a", "p", "i", "K", "e", "y">>,
     <<"K", "E", "_", "A", "W">>,
     <<"P", "A", "T", "H">>}

Absent == "absent"
\* "v": a value the process was started with; "w": a value a script wrote
EnvVals == {"v", "w"}

\* str.upper() on the characters that occur in the names
UpperChar(c) ==
    CASE c = "a" -> "A" [] c = "w" -> "W" [] c = "s" -> "S" [] c = "k" -> "K"
      [] c = "e" -> "E" [] c = "y" -> "Y" [] c = "p" -> "P" [] c = "i" -> "I"
      [] OTHER -> c

upper(str) == [i \in 1..Len(str) |-> UpperChar(str[i])]

\* the Python test  sub in str
Contains(str, sub) ==
    \E i \in 0..(Len(str) - Len(sub)) : \A j \in 1..Len(sub) : str[i + j] = sub[j]

exclude_patterns == {<<"A", "W", "S">>, <<"K", "E", "Y">>}

\* a comparison that forgets to upper-case the key
KeptCaseSensitive(key) ==
    \A pattern \in exclude_patterns : ~Contains(key, upper(pattern))

\* the condition of the comprehension in __enter__
Kept(key) ==
    \A pattern \in exclude_patterns : ~Contains(upper(key), upper(pattern))

\* environ.clear()
Cleared(env) == [k \in EnvKeys |-> Absent]

\* environ.update(m)
Updated(env, m) == [k \in EnvKeys |-> IF m[k] # Absent THEN m[k] ELSE env[k]]

\* the mapping __enter__ passes to environ.update
FilteredItems(snapshot) == [k \in EnvKeys |-> IF Kept(k) THEN snapshot[k] ELSE Absent]

\* a restore that updates without clearing first
RestoredNoClear(env, snapshot) == Updated(env, snapshot)

\* an __exit__ that has not restored anything yet when it starts deleting
RestoredNotYet(env, snapshot) == env

\* __exit__: environ.clear(); environ.update(self.orig_environ)
Restored(env, snapshot) == Updated(Cleared(env), snapshot)

TmpNames == {"x", "y"}
\* "other": an entry for which is_file() and is_dir() are both false
\* (a FIFO, a socket, a dangling symbolic link)
TmpKinds == {"file", "dir", "other"}
EmptyTmp == [n \in TmpNames |-> Absent]

(***************************************************************************)
(* Requests, exceptions, responses                                         *)
(***************************************************************************)
Events ==
    {[keys |-> K, inputs |-> x] :
        K \in {{"inputs", "url"}, {"inputs"}, {"url"}}, x \in {PyNone, PyInt(1)}}

\* context.aws_request_id: the host gives every invocation its own
RequestId(n) == <<"req", ToString(n)>>

Exc(type, msg) == [type |-> type, msg |-> msg]
NoExc == Exc("none", <<>>)

\* classes that derive from BaseException but not from Exception
BaseOnly == {"SystemExit", "KeyboardInterrupt"}

\* except Exception as e
Caught(e) == e.type \notin BaseOnly

NoResponse == [statusCode |-> 0]
\* a failure body with the message and the class name swapped
FailureSwapped(e, id) ==
    [statusCode |-> 400,
     body |-> [errorMessage |-> <<e.type>>, errorType |-> e.type,
               stackTrace |-> <<>>, requestId |-> id]]

\* a success response that leaves the body out
SuccessEmptyBody(body) == [statusCode |-> 200, body |-> PyNone]

\* line 54
Success(body) == [statusCode |-> 200, body |-> body]
Failure(e, id) ==
    [statusCode |-> 400,
     body |-> [errorMessage |-> e.msg, errorType |-> e.type,
               stackTrace |-> <<>>, requestId |-> id]]

\* what a script can raise, at top level or inside main
ScriptErrors ==
    {Exc("ValueError", <<"boom">>), Exc("RuntimeError", <<"bad">>),
     Exc("SystemExit", <<"1">>)}

\* what main can return
MainOutputs ==
    {PyInt(2), PySet({PyInt(1), PyStr("a")}), PyObj("bad"), PyList(<<PySelf>>),
     PyDict(<<Item(PyTuple(<<PyInt(1)>>), PyInt(1))>>)}

\* the names a script can define
Namespaces == {{}, {"main"}, {"helper"}}

\* response.data.decode("utf-8"): the script text of a 200 response, the
\* bodies of the other responses, and the value before any fetch
ScriptText == "def main(inputs): ..."
ErrorBodies == {"Not Found", "Server Error"}
NoCode == ""

\* the text the messages are built from
FetchFailed == "Failed to fetch app code: "
\* an assertion message that leaves the body out
FetchMessageNoBody(body) == <<FetchFailed, "\n">>
\* line 43: f"Failed to fetch app code: {str(code)}\n"
FetchMessage(body) == <<FetchFailed, body, "\n">>
NoMain == "'def main(inputs):' is not defined"

\* str(e) of the errors to_json raises
JsonErrorMsg(type) == IF type = "ValueError" THEN <<"Circular reference detected">> ELSE <<>>

(***************************************************************************)
(* The handler (src/app.py:15-65) and NewEnv (src/app.py:67-104)           *)
(***************************************************************************)
HandlerIdle ==
    /\ pc = "idle"
    /\ event = [keys |-> {}, inputs |-> PyNone]
    /\ g = {}
    /\ outputs = PyNone
    /\ retval = NoResponse
    /\ exc = NoExc
    /\ response = NoResponse
    /\ status = 0
    /\ todo = {}
    /\ entered = FALSE
    /\ exits = 0
    /\ loaded = FALSE
    /\ invoked = FALSE
    /\ populated = FALSE
    /\ mainExc = NoExc
    /\ ops = 0
    /\ muts = {}
    /\ code = NoCode
    /\ exc_val = NoExc
    /\ delFailed = FALSE
    /\ inv = 0
    /\ environ = baseEnv
    /\ orig_environ = Cleared(environ)
    /\ tmp = EmptyTmp

\* the threads that may call the handler in one process
Threads == {1, 2}

\* no thread has called the handler
ThreadsIdle ==
    /\ cpc = [t \in Threads |-> "idle"]
    /\ csnap = [t \in Threads |-> Cleared(<<>>)]

Init ==
    /\ baseEnv \in [EnvKeys -> {Absent, "v"}]
    /\ HandlerIdle
    /\ ThreadsIdle
    /\ jin = PyNone
    /\ jseed = CHOOSE s \in Seeds : TRUE
    /\ jres = Raise("none")
    /\ jpc = "start"

\* an assertion that only tests the status for truth
StatusOkTruthy(st) == st # 0

\* line 43: the condition of  assert response.status == 200
StatusOk(st) == st = 200

\* the call is made without the assertion before it
HasMainUnchecked(ns) == TRUE

\* line 50: the condition of  assert "main" in g
HasMain(ns) == "main" \in ns

\* leaving the with block by an exception skips __exit__
AfterBlockNoFinally(raised) == IF raised THEN "unwind" ELSE "exit_restore"

\* the with statement: __exit__ is called however the block is left
AfterBlock(raised) == "exit_restore"

\* an exception raised inside the with block
RaiseInBlock(e) ==
    /\ exc' = e
    /\ pc' = AfterBlock(TRUE)

\* the host calls handler(event, context)
Invoke ==
    /\ pc = "idle"
    /\ inv < MaxInvocations
    /\ event' \in Events
    /\ pc' = "init"
    /\ response' = NoResponse
    /\ UNCHANGED <<jvars, cvars, environ, baseEnv, tmp, orig_environ, inv, g,
                   outputs, retval, exc, status, todo, entered, exits, loaded,
                   invoked, populated, mainExc, ops, muts, code, exc_val,
                   delFailed>>

\* a with statement that ran __exit__ even when the manager was never entered
AfterEnterFailureCleanup == "exit_restore"

\* line 31: an exception of NewEnv() or of __enter__ leaves the with
\* statement before its block and without a call of __exit__
AfterEnterFailure == "unwind"

\* NewEnv(): __init__ copies the environment, or fails to
NewEnvInit ==
    /\ pc = "init"
    /\ \/ /\ orig_environ' = environ
          /\ pc' = "enter"
          /\ exc' = exc
       \/ /\ exc' = Exc("MemoryError", <<>>)
          /\ pc' = AfterEnterFailure
          /\ orig_environ' = orig_environ
    /\ UNCHANGED <<jvars, cvars, environ, baseEnv, tmp, event, inv, g,
                   outputs, retval, response, status, todo, entered, exits,
                   loaded, invoked, populated, mainExc, ops, muts, code,
                   exc_val, delFailed>>

\* __enter__: clear the environment, install the filtered items; the
\* operating system may refuse the first unsetenv of clear() or the first
\* putenv of update()
Enter ==
    /\ pc = "enter"
    /\ \/ /\ environ' = Updated(Cleared(environ), FilteredItems(orig_environ))
          /\ entered' = TRUE
          /\ pc' = "event"
          /\ exc' = exc
       \/ /\ environ' \in {environ, Cleared(environ)}
          /\ exc' = Exc("OSError", <<"Cannot allocate memory">>)
          /\ pc' = AfterEnterFailure
          /\ entered' = entered
    /\ UNCHANGED <<jvars, cvars, baseEnv, tmp, orig_environ, event, inv, g,
                   outputs, retval, response, status, todo, exits, loaded,
                   invoked, populated, mainExc, ops, muts, code, exc_val,
                   delFailed>>

\* lines 33-37: event["inputs"], event["url"]
ReadEvent ==
    /\ pc = "event"
    /\ IF "inputs" \notin event.keys THEN RaiseInBlock(Exc("KeyError", <<"'inputs'">>))
       ELSE IF "url" \notin event.keys THEN RaiseInBlock(Exc("KeyError", <<"'url'">>))
       ELSE pc' = "fetch" /\ exc' = exc
    /\ UNCHANGED <<jvars, cvars, environ, baseEnv, tmp, orig_environ, event,
                   inv, g, outputs, retval, response, status, todo, entered,
                   exits, loaded, invoked, populated, mainExc, ops, muts,
                   code, exc_val, delFailed>>

\* lines 40-43: the request fails, or the body does not decode, or the
\* status is asserted to be 200
Fetch ==
    /\ pc = "fetch"
    /\ \/ /\ RaiseInBlock(Exc("MaxRetryError", <<"unreachable">>))
          /\ status' = status
          /\ code' = code
       \/ \E st \in {200, 404, 500} :
            /\ status' = st
            /\ \/ /\ RaiseInBlock(Exc("UnicodeDecodeError", <<"invalid start byte">>))
                  /\ code' = code
               \/ /\ code' \in (IF st = 200 THEN {ScriptText} ELSE ErrorBodies)
                  /\ IF StatusOk(st) THEN pc' = "load" /\ exc' = exc
                     ELSE RaiseInBlock(Exc("AssertionError", FetchMessage(code')))
    /\ UNCHANGED <<jvars, cvars, environ, baseEnv, tmp, orig_environ, event,
                   inv, g, outputs, retval, response, todo, entered, exits,
                   loaded, invoked, populated, mainExc, ops, muts, exc_val,
                   delFailed>>

\* a namespace kept from one call to the next
NewNamespaceReused(last) == last

\* line 46: g = {}, a new dict whatever the last namespace held
NewNamespace(last) == {}

\* lines 46-47: g = {} and the start of exec(code, g)
Load ==
    /\ pc = "load"
    /\ g' = NewNamespace(g)
    /\ loaded' = TRUE
    /\ pc' = "exec"
    /\ UNCHANGED <<jvars, cvars, environ, baseEnv, tmp, orig_environ, event,
                   inv, outputs, retval, exc, response, status, todo, entered,
                   exits, invoked, populated, mainExc, ops, muts, code,
                   exc_val, delFailed>>

\* the script, at top level or inside main, sets an environment variable
ScriptSetEnv ==
    /\ pc \in {"exec", "main"}
    /\ ops < MaxOps
    /\ \E k \in EnvKeys :
        /\ environ' = [environ EXCEPT ![k] = "w"]
        /\ muts' = muts \cup {IF environ[k] = Absent THEN "add" ELSE "overwrite"}
    /\ ops' = ops + 1
    /\ UNCHANGED <<jvars, cvars, baseEnv, tmp, orig_environ, pc, event, inv,
                   g, outputs, retval, exc, response, status, todo, entered,
                   exits, loaded, invoked, populated, mainExc, code, exc_val,
                   delFailed>>

\* the script deletes an environment variable
ScriptDelEnv ==
    /\ pc \in {"exec", "main"}
    /\ ops < MaxOps
    /\ \E k \in EnvKeys :
        /\ environ[k] # Absent
        /\ environ' = [environ EXCEPT ![k] = Absent]
    /\ muts' = muts \cup {"delete"}
    /\ ops' = ops + 1
    /\ UNCHANGED <<jvars, cvars, baseEnv, tmp, orig_environ, pc, event, inv,
                   g, outputs, retval, exc, response, status, todo, entered,
                   exits, loaded, invoked, populated, mainExc, code, exc_val,
                   delFailed>>

\* the script creates an entry in /tmp
ScriptCreateTmp ==
    /\ pc \in {"exec", "main"}
    /\ ops < MaxOps
    /\ \E n \in TmpNames, kind \in TmpKinds :
        /\ tmp[n] = Absent
        /\ tmp' = [tmp EXCEPT ![n] = kind]
    /\ ops' = ops + 1
    /\ UNCHANGED <<jvars, cvars, environ, baseEnv, orig_environ, pc, event,
                   inv, g, outputs, retval, exc, response, status, todo,
                   entered, exits, loaded, invoked, populated, mainExc, muts,
                   code, exc_val, delFailed>>

\* exec(code, g) ends: the script's names are in g, or it raised
ExecEnd ==
    /\ pc = "exec"
    /\ \/ /\ \E names \in Namespaces : g' = g \cup names
          /\ populated' = TRUE
          /\ pc' = "check"
          /\ exc' = exc
       \/ /\ \E e \in ScriptErrors \cup {Exc("SyntaxError", <<"invalid syntax">>)} :
                RaiseInBlock(e)
          /\ g' = g
          /\ populated' = populated
    /\ UNCHANGED <<jvars, cvars, environ, baseEnv, tmp, orig_environ, event,
                   inv, outputs, retval, response, status, todo, entered,
                   exits, loaded, invoked, mainExc, ops, muts, code, exc_val,
                   delFailed>>

\* lines 50-51: assert "main" in g, then the call of g["main"](inputs)
CallMain ==
    /\ pc = "check"
    /\ IF HasMain(g)
       THEN pc' = "main" /\ invoked' = TRUE /\ exc' = exc
       ELSE RaiseInBlock(Exc("AssertionError", <<NoMain>>)) /\ invoked' = invoked
    /\ UNCHANGED <<jvars, cvars, environ, baseEnv, tmp, orig_environ, event,
                   inv, g, outputs, retval, response, status, todo, entered,
                   exits, loaded, populated, mainExc, ops, muts, code,
                   exc_val, delFailed>>

\* main returns a value or raises
MainEnd ==
    /\ pc = "main"
    /\ \/ /\ outputs' \in MainOutputs
          /\ pc' = "tojson"
          /\ exc' = exc
          /\ mainExc' = mainExc
       \/ /\ \E e \in ScriptErrors : RaiseInBlock(e) /\ mainExc' = e
          /\ outputs' = outputs
    /\ UNCHANGED <<jvars, cvars, environ, baseEnv, tmp, orig_environ, event,
                   inv, g, retval, response, status, todo, entered, exits,
                   loaded, invoked, populated, ops, muts, code, exc_val,
                   delFailed>>

\* line 54: return {"statusCode": 200, "body": to_json(outputs)}
ToJson ==
    /\ pc = "tojson"
    /\ \E seed \in Seeds :
        LET r == to_json(outputs, seed) IN
        IF r.ok
        THEN retval' = Success(r.val) /\ pc' = AfterBlock(FALSE) /\ exc' = exc
        ELSE RaiseInBlock(Exc(r.err, JsonErrorMsg(r.err))) /\ retval' = retval
    /\ UNCHANGED <<jvars, cvars, environ, baseEnv, tmp, orig_environ, event,
                   inv, g, outputs, response, status, todo, entered, exits,
                   loaded, invoked, populated, mainExc, ops, muts, code,
                   exc_val, delFailed>>

\* __exit__, lines 95-96: restore the environment
ExitRestore ==
    /\ pc = "exit_restore"
    /\ exits' = exits + 1
    /\ exc_val' = exc
    /\ environ' = Restored(environ, orig_environ)
    /\ pc' = "exit_scan"
    /\ UNCHANGED <<jvars, cvars, baseEnv, tmp, orig_environ, event, inv, g,
                   outputs, retval, exc, response, status, todo, entered,
                   loaded, invoked, populated, mainExc, ops, muts, code,
                   delFailed>>

\* __exit__, line 99: scandir("/tmp")
ExitScan ==
    /\ pc = "exit_scan"
    /\ todo' = {n \in TmpNames : tmp[n] # Absent}
    /\ pc' = "exit_purge"
    /\ UNCHANGED <<jvars, cvars, environ, baseEnv, tmp, orig_environ, event,
                   inv, g, outputs, retval, exc, response, status, entered,
                   exits, loaded, invoked, populated, mainExc, ops, muts,
                   code, exc_val, delFailed>>

\* __exit__, lines 100-103: one entry of the listing.  remove() deletes the
\* file or raises; rmtree(ignore_errors=True) deletes the directory or
\* gives up silently; any other entry is passed over
ExitPurge ==
    /\ pc = "exit_purge"
    /\ \E n \in todo :
        \/ /\ tmp[n] = "file"
           /\ tmp' = [tmp EXCEPT ![n] = Absent]
           /\ todo' = todo \ {n}
           /\ UNCHANGED <<pc, exc, retval, delFailed>>
        \/ /\ tmp[n] = "file"
           /\ exc' = Exc("PermissionError", <<"Operation not permitted">>)
           /\ retval' = NoResponse
           /\ delFailed' = TRUE
           /\ pc' = "unwind"
           /\ UNCHANGED <<tmp, todo>>
        \/ /\ tmp[n] = "dir"
           /\ \/ tmp' = [tmp EXCEPT ![n] = Absent] /\ delFailed' = delFailed
              \/ tmp' = tmp /\ delFailed' = TRUE
           /\ todo' = todo \ {n}
           /\ UNCHANGED <<pc, exc, retval>>
        \/ /\ tmp[n] = "other"
           /\ todo' = todo \ {n}
           /\ UNCHANGED <<tmp, pc, exc, retval, delFailed>>
    /\ UNCHANGED <<jvars, cvars, environ, baseEnv, orig_environ, event, inv,
                   g, outputs, response, status, entered, exits, loaded,
                   invoked, populated, mainExc, ops, muts, code, exc_val>>

\* __exit__, line 104: the listing is exhausted
ExitDone ==
    /\ pc = "exit_purge"
    /\ todo = {}
    /\ pc' = "unwind"
    /\ UNCHANGED <<jvars, cvars, environ, baseEnv, tmp, orig_environ, event,
                   inv, g, outputs, retval, exc, response, status, todo,
                   entered, exits, loaded, invoked, populated, mainExc, ops,
                   muts, code, exc_val, delFailed>>

\* after the with statement: the return value is returned, or the exception
\* reaches  except Exception  (lines 55-65), or it leaves the handler
Unwind ==
    /\ pc = "unwind"
    /\ IF exc = NoExc THEN response' = retval /\ exc' = exc
       ELSE IF Caught(exc) THEN response' = Failure(exc, RequestId(inv)) /\ exc' = NoExc
       ELSE response' = response /\ exc' = exc
    /\ pc' = "done"
    /\ UNCHANGED <<jvars, cvars, environ, baseEnv, tmp, orig_environ, event,
                   inv, g, outputs, retval, status, todo, entered, exits,
                   loaded, invoked, populated, mainExc, ops, muts, code,
                   exc_val, delFailed>>

\* the invocation is over; the process waits for the next one.  The locals
\* of the call are gone; g keeps the names of the namespace the call left
\* behind, which nothing refers to any more
Return ==
    /\ pc = "done"
    /\ pc' = "idle"
    /\ inv' = inv + 1
    /\ event' = [keys |-> {}, inputs |-> PyNone]
    /\ outputs' = PyNone
    /\ retval' = NoResponse
    /\ exc' = NoExc
    /\ response' = NoResponse
    /\ status' = 0
    /\ code' = NoCode
    /\ exc_val' = NoExc
    /\ delFailed' = FALSE
    /\ todo' = {}
    /\ entered' = FALSE
    /\ exits' = 0
    /\ loaded' = FALSE
    /\ invoked' = FALSE
    /\ populated' = FALSE
    /\ mainExc' = NoExc
    /\ ops' = 0
    /\ muts' = {}
    /\ orig_environ' = Cleared(environ)
    /\ UNCHANGED <<jvars, cvars, environ, baseEnv, tmp, g>>

Next ==
    \/ Invoke \/ NewEnvInit \/ Enter \/ ReadEvent \/ Fetch \/ Load
    \/ ScriptSetEnv \/ ScriptDelEnv \/ ScriptCreateTmp
    \/ ExecEnd \/ CallMain \/ MainEnd \/ ToJson
    \/ ExitRestore \/ ExitScan \/ ExitPurge \/ ExitDone \/ Unwind \/ Return

Spec == Init /\ [][Next]_vars

(***************************************************************************)
(* Claims about the handler and NewEnv, checked under Spec                 *)
(***************************************************************************)
AFTER_EXIT == {"unwind", "done"}

\* C1: once __exit__ has run in an invocation that entered, the live
\* environment has exactly the keys and values of the snapshot taken at
\* entry, whatever the script added, overwrote or deleted.
C1_Restoration ==
    (entered /\ pc \in AFTER_EXIT) =>
        \A k \in EnvKeys : environ[k] = orig_environ[k]

\* C1 witness: an invocation ended whose script both added and deleted variables
C1_Witness ==
    /\ pc = "done"
    /\ entered
    /\ {"add", "delete"} \subseteq muts
    /\ \E k \in EnvKeys : orig_environ[k] # Absent

\* C2: after __enter__ has completed, __exit__ is called exactly once before
\* the handler is left, whichever way the with block was left.
C2_ScopedRelease ==
    /\ exits <= 1
    /\ (entered /\ pc \in AFTER_EXIT) => exits = 1
    /\ ~entered => exits = 0

\* C2 witness: the block was left by an exception raised inside main
C2_Witness ==
    /\ pc = "done"
    /\ entered
    /\ exits = 1
    /\ mainExc # NoExc
    /\ response.statusCode = 400

\* the words the filter excludes, in upper and in lower case
ExcludedWords ==
    {[up |-> <<"A", "W", "S">>, low |-> <<"a", "w", "s">>],
     [up |-> <<"K", "E", "Y">>, low |-> <<"k", "e", "y">>]}

\* key contains one of the words, each letter in either case
ContainsWordAnyCase(key) ==
    \E word \in ExcludedWords : \E i \in 0..(Len(key) - 3) :
        \A j \in 1..3 : key[i + j] \in {word.up[j], word.low[j]}

\* C3: the environment __enter__ installs holds no key containing AWS or
\* KEY in any mix of cases, holds every other key of the snapshot with its
\* value, and holds no key the snapshot lacks.
C3_EnvironmentFilter ==
    pc = "event" =>
        \A k \in EnvKeys :
            environ[k] = IF ContainsWordAnyCase(k) THEN Absent ELSE orig_environ[k]

\* C3 witness: a mixed-case key was dropped while other keys were kept
C3_Witness ==
    /\ pc = "event"
    /\ orig_environ[<<"a", "p", "i", "K", "e", "y">>] # Absent
    /\ environ[<<"a", "p", "i", "K", "e", "y">>] = Absent
    /\ environ[<<"K", "E", "_", "A", "W">>] # Absent
    /\ environ[<<"P", "A", "T", "H">>] # Absent

\* C4: when the script of any invocation starts, the environment is the
\* filtered process environment and /tmp is as empty as at process start,
\* whatever earlier scripts did.
C4_NoLeak ==
    (pc = "exec" /\ ops = 0) =>
        /\ environ = Updated(Cleared(environ), FilteredItems(baseEnv))
        /\ tmp = EmptyTmp

\* the error classes the handler reports for a failure of __exit__
ExitErrors == {"PermissionError"}

\* C5 as stated: a fetch status other than 200 gives statusCode 400 with
\* errorType "FetchError", and the body is neither loaded nor executed.
C5_FetchErrorType ==
    (pc = "done" /\ status \notin {0, 200}) =>
        /\ response.statusCode = 400
        /\ response.body.errorType = "FetchError"
        /\ ~loaded /\ ~invoked

\* C5 amended: a fetch status other than 200 gives statusCode 400 whose
\* errorType is the class name of the error raised: AssertionError for the
\* failed status assertion (its message holding the body), UnicodeDecodeError
\* for a body that does not decode, or the class of an error raised by
\* __exit__; the body is neither loaded nor executed.
C5_NonOkFetch ==
    (pc = "done" /\ status \notin {0, 200}) =>
        /\ response.statusCode = 400
        /\ response.body.errorType \in
              {"AssertionError", "UnicodeDecodeError"} \cup ExitErrors
        /\ response.body.errorType = "AssertionError" =>
              response.body.errorMessage = FetchMessage(code)
        /\ ~loaded /\ ~invoked

\* C5 witness: a 404 was answered with the failed assertion
C5_Witness ==
    /\ pc = "done"
    /\ status = 404
    /\ response.statusCode = 400
    /\ response.body.errorType = "AssertionError"

\* C6 as stated: a script that loads but defines no main gives statusCode
\* 400 with errorType "ContractError", and nothing is invoked.
C6_ContractErrorType ==
    (pc = "done" /\ populated /\ "main" \notin g) =>
        /\ response.statusCode = 400
        /\ response.body.errorType = "ContractError"
        /\ ~invoked

\* C6 amended: a script that loads but defines no main gives, for every
\* inputs, statusCode 400 whose errorType is AssertionError (with the
\* message 'def main(inputs):' is not defined) or the class of an error
\* raised by __exit__, and nothing is invoked.
C6_MissingMain ==
    (pc = "done" /\ populated /\ "main" \notin g) =>
        /\ response.statusCode = 400
        /\ response.body.errorType \in {"AssertionError"} \cup ExitErrors
        /\ response.body.errorType = "AssertionError" =>
              response.body.errorMessage = <<NoMain>>
        /\ ~invoked

\* C6 witness: a script defining only another name was answered, inputs not null
C6_Witness ==
    /\ pc = "done"
    /\ populated
    /\ g = {"helper"}
    /\ event.inputs # PyNone
    /\ response.statusCode = 400
    /\ response.body.errorType = "AssertionError"

\* C7 as stated: every exception raised inside main gives statusCode 400,
\* errorType "RuntimeError", the raised message, an empty stackTrace and the
\* request id of the context.
C7_RuntimeErrorType ==
    (pc = "done" /\ mainExc # NoExc) =>
        /\ response.statusCode = 400
        /\ response.body.errorType = "RuntimeError"
        /\ response.body.errorMessage = mainExc.msg
        /\ response.body.stackTrace = <<>>
        /\ response.body.requestId = RequestId(inv)

\* C7 amended: an exception raised inside main whose class derives from
\* Exception gives statusCode 400 with an empty stackTrace, the request id
\* of the context, and as errorType and errorMessage the class name and the
\* message of the raised exception, or those of an error raised by
\* __exit__; an exception that does not derive from Exception leaves the
\* handler without a response unless an error of __exit__ replaced it.
C7_MainRaises ==
    (pc = "done" /\ mainExc # NoExc) =>
        /\ Caught(mainExc) => response.statusCode = 400
        /\ response.statusCode = 400 =>
            /\ response.body.stackTrace = <<>>
            /\ response.body.requestId = RequestId(inv)
            /\ \/ /\ response.body.errorType = mainExc.type
                  /\ response.body.errorMessage = mainExc.msg
                  /\ Caught(mainExc)
               \/ response.body.errorType \in ExitErrors
        /\ response.statusCode # 400 =>
            /\ response = NoResponse
            /\ exc = mainExc

\* C7 witness: main raised ValueError("boom") and the handler answered with it
C7_Witness ==
    /\ pc = "done"
    /\ mainExc = Exc("ValueError", <<"boom">>)
    /\ response.statusCode = 400
    /\ response.body.errorType = "ValueError"
    /\ response.body.errorMessage = <<"boom">>

\* C8: every invocation ends with a response of one of the two shapes; no
\* failure leaves the handler as an uncaught exception.
C8_AlwaysResponds ==
    pc = "done" =>
        /\ exc = NoExc
        /\ response.statusCode \in {200, 400}

\* C12: after __exit__ of any invocation, successful or failed, /tmp holds
\* no entry at all, whatever kinds of entries the script created.
C12_ScratchEmptyAfterExit ==
    (pc \in AFTER_EXIT /\ exits = 1) => tmp = EmptyTmp

\* the response the with block determined: the value of its return
\* statement, or the failure made from the exception that left it
BlockDetermined(resp) ==
    IF exc_val = NoExc
    THEN /\ resp.statusCode = 200
         /\ \E seed \in Seeds : to_json(outputs, seed) = Ret(resp.body)
    ELSE Caught(exc_val) =>
            /\ resp.statusCode = 400
            /\ resp.body.errorType = exc_val.type
            /\ resp.body.errorMessage = exc_val.msg

\* C13: when a deletion fails during __exit__, the failure is suppressed and
\* the handler returns the response the block determined: a success stays
\* a success with the same body, a failure keeps its errorType and
\* errorMessage.
C13_CleanupFailureSuppressed ==
    (pc = "done" /\ delFailed) => BlockDetermined(response)

\* the error classes to_json raises
JsonErrors == {"TypeError", "ValueError"}

\* C14 as stated: the script is loaded only after the fetch returned 200,
\* main is called only after the load completed, and the response is decided
\* by main alone: its return value gives the 200 body, its error the 400 body.
C14_MainDecidesResponse ==
    /\ loaded => status = 200
    /\ invoked => (populated /\ "main" \in g)
    /\ (pc = "done" /\ invoked) =>
          IF mainExc = NoExc
          THEN /\ response.statusCode = 200
               /\ \E seed \in Seeds : to_json(outputs, seed) = Ret(response.body)
          ELSE response = Failure(mainExc, RequestId(inv))

\* C14 amended: the script is loaded only after the fetch returned 200 and
\* main is called only after the load completed; a 200 response is returned
\* only when main returned, its body being to_json of the returned value;
\* after main returned, a 400 response carries an error of to_json or of
\* __exit__; after main raised, a 400 response carries main's error or an
\* error of __exit__.
C14_StageOrder ==
    /\ loaded => status = 200
    /\ invoked => (populated /\ "main" \in g)
    /\ (pc = "done" /\ response.statusCode = 200) =>
          /\ invoked
          /\ mainExc = NoExc
          /\ \E seed \in Seeds : to_json(outputs, seed) = Ret(response.body)
    /\ (pc = "done" /\ invoked /\ response.statusCode = 400) =>
          IF mainExc = NoExc
          THEN \/ /\ response.body.errorType \in JsonErrors
                  /\ \E seed \in Seeds : ~to_json(outputs, seed).ok
               \/ response.body.errorType \in ExitErrors
          ELSE \/ /\ response.body.errorType = mainExc.type
                  /\ response.body.errorMessage = mainExc.msg
               \/ response.body.errorType \in ExitErrors

\* C14 witness: main returned a value to_json cannot encode, and the
\* handler answered with the error of to_json
C14_Witness ==
    /\ pc = "done"
    /\ invoked
    /\ mainExc = NoExc
    /\ outputs = PyObj("bad")
    /\ response.statusCode = 400
    /\ response.body.errorType = "TypeError"

\* the text is one of the parts the message was built from
InMessage(text, msg) == \E i \in 1..Len(msg) : msg[i] = text

\* C15 as stated: for a fetch status other than 200 the errorMessage holds
\* both the status code and the body of the response.
C15_StatusAndBodyInMessage ==
    (pc = "done" /\ status \notin {0, 200}) =>
        /\ response.statusCode = 400
        /\ InMessage(ToString(status), response.body.errorMessage)
        /\ InMessage(code, response.body.errorMessage)

\* C15 amended: for a fetch status other than 200 the response is a failure
\* whose errorMessage never holds the status code; when its errorType is
\* AssertionError the message is "Failed to fetch app code: ", the body and
\* a newline; otherwise the error is that of a body that does not decode
\* or of __exit__.
C15_BodyInMessage ==
    (pc = "done" /\ status \notin {0, 200}) =>
        /\ response.statusCode = 400
        /\ ~InMessage(ToString(status), response.body.errorMessage)
        /\ IF response.body.errorType = "AssertionError"
           THEN /\ code \in ErrorBodies
                /\ response.body.errorMessage = <<FetchFailed, code, "\n">>
           ELSE response.body.errorType \in {"UnicodeDecodeError"} \cup ExitErrors

\* C15 witness: a 500 with body "Server Error" was answered with the body
\* in the message
C15_Witness ==
    /\ pc = "done"
    /\ status = 500
    /\ code = "Server Error"
    /\ response.statusCode = 400
    /\ InMessage("Server Error", response.body.errorMessage)

\* C17: the namespace the script is loaded into is empty when the load
\* starts, whatever the scripts of earlier invocations defined, and after
\* the load it holds the names of this invocation's script only.
C17_FreshNamespace ==
    /\ pc = "exec" => g = {}
    /\ populated => g \in Namespaces

\* C17 witness: in a process where an earlier script has run (it left an
\* entry in /tmp), the script of a later invocation starts in an empty
\* namespace
C17_Witness ==
    /\ inv >= 1
    /\ pc = "exec"
    /\ ops = 0
    /\ tmp # EmptyTmp
    /\ g = {}

\* the error classes NewEnv() and __enter__ raise
EnterErrors == {"MemoryError", "OSError"}

\* C18: when NewEnv() or __enter__ fails, nothing is fetched, loaded or
\* called, __exit__ is not called (no restore, no purge), and the handler
\* answers with the failure.
C18_FailClosed ==
    (pc \in AFTER_EXIT /\ ~entered) =>
        /\ status = 0 /\ code = NoCode
        /\ ~loaded /\ ~populated /\ ~invoked
        /\ ops = 0
        /\ exits = 0 /\ todo = {} /\ ~delFailed
        /\ pc = "done" =>
              /\ response.statusCode = 400
              /\ response.body.errorType \in EnterErrors

\* C18 witness: __enter__ failed after clearing the environment, and the
\* handler answered while the environment was still cleared
C18_Witness ==
    /\ pc = "done"
    /\ ~entered
    /\ response.body.errorType = "OSError"
    /\ \E k \in EnvKeys : orig_environ[k] # Absent /\ environ[k] = Absent
    /\ exits = 0

\* C19: __exit__ restores the environment before it deletes anything: while
\* /tmp is scanned and purged, and in every state after a deletion failed,
\* the live environment equals the snapshot.
C19_RestoreBeforePurge ==
    /\ pc \in {"exit_scan", "exit_purge"} => environ = orig_environ
    /\ delFailed => environ = orig_environ

\* C19 witness: remove() raised in an invocation whose script had changed
\* the environment and whose snapshot held a filtered key
C19_Witness ==
    /\ pc = "unwind"
    /\ delFailed
    /\ exc.type \in ExitErrors
    /\ muts # {}
    /\ \E k \in EnvKeys : ~Kept(k) /\ orig_environ[k] # Absent
    /\ environ = orig_environ

\* the request had both keys, the fetch returned 200, the script loaded and
\* defined main, main returned, to_json encoded the value and __exit__
\* ended without raising
AllStagesSucceeded ==
    /\ {"inputs", "url"} \subseteq event.keys
    /\ status = 200
    /\ populated /\ "main" \in g
    /\ invoked /\ mainExc = NoExc
    /\ \E seed \in Seeds : to_json(outputs, seed).ok
    /\ exits = 1 /\ exc_val = NoExc /\ exc = NoExc

\* C20: the handler answers 200 only when every stage succeeded; in every
\* other case it answers 400, and no invocation ends without a response.
C20_OkOnlyIfAllSucceeded ==
    pc = "done" =>
        /\ response.statusCode = 200 => AllStagesSucceeded
        /\ ~AllStagesSucceeded => response.statusCode = 400


(***************************************************************************)
(* SpecJson: to_json applied once to a bounded Python value                *)
(***************************************************************************)
\* jin is any Python value of at most MaxNodes nodes
InitJson ==
    /\ LET sized == ValsBySize(MaxNodes - 1) IN
       \/ jin \in Smallest
       \/ \E n \in 2..MaxNodes :
            \/ jin \in SetsOf(n - 1)
            \/ jin \in NdarraysOf(n - 1)
            \/ \E c \in Compositions(n - 1) :
                 \/ jin \in ListsOf(c, sized)
                 \/ jin \in TuplesOf(c, sized)
                 \/ \E ks \in KeySeqs(Len(c)) : jin \in DictsOf(c, ks, sized)
    /\ jseed = CHOOSE s \in Seeds : TRUE
    /\ jres = Raise("none")
    /\ jpc = "start"
    /\ baseEnv = Cleared(<<>>)
    /\ HandlerIdle
    /\ ThreadsIdle

\* one process, with its own string hashing, calls to_json(jin)
Normalize ==
    /\ jpc = "start"
    /\ jseed' \in Seeds
    /\ jres' = to_json(jin, jseed')
    /\ jpc' = "done"
    /\ UNCHANGED <<jin, hvars, cvars>>

NextJson == Normalize

SpecJson == InitJson /\ [][NextJson]_vars

\* values made only of None, bool, int, str, list and str-keyed dict
RECURSIVE IsJson(_)
IsJson(x) ==
    CASE x.t \in {"None", "bool", "int", "str"} -> TRUE
      [] x.t = "list" -> \A i \in 1..Len(x.v) : IsJson(x.v[i])
      [] x.t = "dict" -> \A i \in 1..Len(x.v) : x.v[i].k.t = "str" /\ IsJson(x.v[i].val)
      [] OTHER -> FALSE

\* some node of x is an object whose str() raises
RECURSIVE HasBadStr(_)
HasBadStr(x) ==
    CASE x.t = "obj" -> x.v = "bad"
      [] x.t \in {"list", "tuple"} -> \E i \in 1..Len(x.v) : HasBadStr(x.v[i])
      [] x.t = "dict" -> \E i \in 1..Len(x.v) : HasBadStr(x.v[i].k) \/ HasBadStr(x.v[i].val)
      [] OTHER -> FALSE

\* the error class set_default raises when str() fails (src/app.py:137)
SerializationError == "TypeError"

(***************************************************************************)
(* Claims about to_json, checked under SpecJson                            *)
(***************************************************************************)
\* C9: to_json either returns a value built only from null, booleans,
\* numbers, strings, lists and string-keyed mappings, or raises the one
\* error of a failed string coercion; it raises nothing else and fails in
\* no other case.
C9_SanitizerTotality ==
    jpc = "done" =>
        IF jres.ok THEN IsJson(jres.val)
        ELSE jres.err = SerializationError /\ HasBadStr(jin)

\* C10: for an input made only of JSON values, to_json returns the input
\* itself, and applying to_json to the result changes nothing.
C10_JsonNoOp ==
    (jpc = "done" /\ IsJson(jin)) =>
        /\ jres = Ret(jin)
        /\ to_json(jres.val, jseed) = jres

\* C10 witness: a nested JSON input (a mapping holding a sequence) went through
C10_Witness ==
    /\ jpc = "done"
    /\ IsJson(jin)
    /\ jin.t = "dict"
    /\ \E i \in 1..Len(jin.v) : jin.v[i].val.t = "list" /\ Len(jin.v[i].val.v) > 0
    /\ jres.ok

\* some node of x is a set or an ndarray
RECURSIVE HasNonNative(_)
HasNonNative(x) ==
    CASE x.t \in {"set", "ndarray"} -> TRUE
      [] x.t \in {"list", "tuple"} -> \E i \in 1..Len(x.v) : HasNonNative(x.v[i])
      [] x.t = "dict" -> \E i \in 1..Len(x.v) : HasNonNative(x.v[i].val)
      [] OTHER -> FALSE

\* every set inside x holds ints only
RECURSIVE IntSetsOnly(_)
IntSetsOnly(x) ==
    CASE x.t = "set" -> \A e \in x.v : e.t = "int"
      [] x.t \in {"list", "tuple"} -> \A i \in 1..Len(x.v) : IntSetsOnly(x.v[i])
      [] x.t = "dict" -> \A i \in 1..Len(x.v) : IntSetsOnly(x.v[i].val)
      [] OTHER -> TRUE

\* out stands for x: containers became lists of the same members, each
\* member standing for its original; a set's members may come in any order
RECURSIVE StandsFor(_, _)
StandsFor(x, out) ==
    CASE x.t = "set" ->
            /\ out.t = "list"
            /\ Len(out.v) = Cardinality(x.v)
            /\ \A e \in x.v : \E i \in 1..Len(out.v) : StandsFor(e, out.v[i])
      [] x.t \in {"ndarray", "list", "tuple"} ->
            /\ out.t = "list"
            /\ Len(out.v) = Len(x.v)
            /\ \A i \in 1..Len(x.v) : StandsFor(x.v[i], out.v[i])
      [] x.t = "dict" ->
            /\ out.t = "dict"
            /\ \A i \in 1..Len(x.v) :
                  (\A j \in (i + 1)..Len(x.v) : KeyText(x.v[j].k) # KeyText(x.v[i].k))
                  => \E j \in 1..Len(out.v) :
                        /\ out.v[j].k = PyStr(KeyText(x.v[i].k).val)
                        /\ StandsFor(x.v[i].val, out.v[j].val)
      [] x.t = "npint" -> out = PyStr(ToString(x.v))
      [] x.t = "obj" -> out = PyStr(ObjRepr)
      [] OTHER -> out = x

\* C11: when to_json returns for an input holding a set or an array at any
\* depth, that container has become a list of exactly its members, each
\* normalised in turn; an array keeps its index order, and the result is the
\* same in every process when the sets hold ints only.
C11_ContainersBecomeLists ==
    (jpc = "done" /\ jres.ok /\ HasNonNative(jin)) =>
        /\ StandsFor(jin, jres.val)
        /\ IntSetsOnly(jin) => \A seed \in Seeds : to_json(jin, seed) = jres

\* C11 witness: a set of two members, one of them a string, was turned into
\* a list whose order another process would not reproduce
C11_Witness ==
    /\ jpc = "done"
    /\ jres.ok
    /\ jin.t = "set"
    /\ Cardinality(jin.v) = 2
    /\ \E e \in jin.v : e.t = "str"
    /\ \E seed \in Seeds : to_json(jin, seed) # jres

\* C11 as stated: the list has the same order on every run, whatever the
\* members of the set are
C11_SameOrderEveryRun ==
    (jpc = "done" /\ jres.ok /\ HasNonNative(jin)) =>
        /\ StandsFor(jin, jres.val)
        /\ \A seed \in Seeds : to_json(jin, seed) = jres

(***************************************************************************)
(* SpecConc: two threads of one process call the handler at the same time. *)
(* Only the statements of NewEnv are followed; they work on the one        *)
(* os.environ and the one /tmp of the process, and the source takes no     *)
(* lock around them.                                                       *)
(***************************************************************************)
\* the handler variables a concurrent caller leaves alone
hrest == <<orig_environ, pc, event, inv, g, outputs, retval, exc, response,
           status, todo, entered, exits, loaded, invoked, populated, mainExc,
           ops, muts, code, exc_val, delFailed>>

InitConc ==
    /\ baseEnv \in [EnvKeys -> {Absent, "v"}]
    /\ HandlerIdle
    /\ ThreadsIdle
    /\ jin = PyNone
    /\ jseed = CHOOSE s \in Seeds : TRUE
    /\ jres = Raise("none")
    /\ jpc = "start"

\* thread t calls handler; NewEnv() copies the environment as it is now
TInit(t) ==
    /\ cpc[t] = "idle"
    /\ csnap' = [csnap EXCEPT ![t] = environ]
    /\ cpc' = [cpc EXCEPT ![t] = "enter"]
    /\ UNCHANGED <<jvars, environ, baseEnv, tmp, hrest>>

\* __enter__ of thread t
TEnter(t) ==
    /\ cpc[t] = "enter"
    /\ environ' = Updated(Cleared(environ), FilteredItems(csnap[t]))
    /\ cpc' = [cpc EXCEPT ![t] = "block"]
    /\ UNCHANGED <<jvars, csnap, baseEnv, tmp, hrest>>

\* the script run by thread t sets an environment variable
TSetEnv(t) ==
    /\ cpc[t] = "block"
    /\ \E k \in EnvKeys : environ[k] # "w" /\ environ' = [environ EXCEPT ![k] = "w"]
    /\ UNCHANGED <<jvars, cvars, baseEnv, tmp, hrest>>

\* the script run by thread t creates a file in /tmp
TCreateTmp(t) ==
    /\ cpc[t] = "block"
    /\ \E n \in TmpNames : tmp[n] = Absent /\ tmp' = [tmp EXCEPT ![n] = "file"]
    /\ UNCHANGED <<jvars, cvars, environ, baseEnv, hrest>>

\* thread t leaves the with block; __exit__ restores its snapshot
TExitRestore(t) ==
    /\ cpc[t] = "block"
    /\ environ' = Restored(environ, csnap[t])
    /\ cpc' = [cpc EXCEPT ![t] = "purge"]
    /\ UNCHANGED <<jvars, csnap, baseEnv, tmp, hrest>>

\* __exit__ of thread t removes the files it finds in /tmp and returns
TExitPurge(t) ==
    /\ cpc[t] = "purge"
    /\ tmp' = EmptyTmp
    /\ cpc' = [cpc EXCEPT ![t] = "done"]
    /\ UNCHANGED <<jvars, csnap, environ, baseEnv, hrest>>

NextConc ==
    \E t \in Threads :
        \/ TInit(t) \/ TEnter(t) \/ TSetEnv(t) \/ TCreateTmp(t)
        \/ TExitRestore(t) \/ TExitPurge(t)

SpecConc == InitConc /\ [][NextConc]_vars

\* thread t is between its __enter__ and the end of its __exit__
Between(t) == cpc[t] \in {"block", "purge"}

\* C16: calls of the handler in one process are serialised by a lock held
\* from __enter__ to the end of __exit__: no two threads are between
\* __enter__ and the end of __exit__ at once, and once every call has
\* exited the environment is the one the process started with.
C16_Serialized ==
    /\ \A t, u \in Threads : (t # u /\ Between(t)) => ~Between(u)
    /\ (\A t \in Threads : cpc[t] = "done") => environ = baseEnv

====
